---- MODULE Spec2Model ----
(***************************************************************************)
(* FraudGuard AI: the hybrid scoring engine (fraud_model.FraudDetector)    *)
(* and the serving endpoints around it (api_server).                       *)
(*                                                                         *)
(* Probabilities are fixed-point numbers: a score s in [0,1] is the        *)
(* integer s * One.  The two component scores are kept on the even points  *)
(* of that grid, so that their average is exact.  Raw anomaly scores       *)
(* (IsolationForest.decision_function) are integers in tenths.             *)
(***************************************************************************)
EXTENDS Integers, Sequences, FiniteSets, TLC

(***************************************************************************)
(* Configuration (config.py), in fixed-point units of 1/200.               *)
(***************************************************************************)
FRAUD_THRESHOLD_HIGH == 160
FRAUD_THRESHOLD_MEDIUM == 100
FRAUD_THRESHOLD_LOW == 40
BinaryCut == 100
One == 2 * BinaryCut

CATEGORICAL_FEATURES == <<"merchant_category", "device_type", "payment_method">>

(***************************************************************************)
(* Bounds of the model.                                                    *)
(***************************************************************************)
RawMax == 10

ProbGrid == {2 * p : p \in 0..(One \div 2)}
RawGrid == (0 - RawMax)..RawMax

Abs(x) == IF x < 0 THEN 0 - x ELSE x

(***************************************************************************)
(* predict, line 241: isolation_proba = 1 / (1 + exp(-isolation_score)).   *)
(* The logistic function on the fixed-point grid, from its expansion       *)
(* 1/2 + x/4 - x^3/48 around 0 (x = t/10), rounded to a whole percent: it  *)
(* is increasing in t, Sigmoid(0) = 1/2 and Sigmoid(-t) = 1 - Sigmoid(t).  *)
(***************************************************************************)
SigmoidBad(t) == BinaryCut + 20 * t

Sigmoid(t) ==
    LET a == Abs(t)
        off == 2 * ((1200 * a - a * a * a + 240) \div 480)
    IN  IF t < 0 THEN BinaryCut - off ELSE BinaryCut + off

(***************************************************************************)
(* predict, line 244: fraud_score = (xgb_proba + isolation_proba) / 2.     *)
(***************************************************************************)
FusionBad(xgb_proba, isolation_proba) == (3 * xgb_proba + isolation_proba) \div 4

Fusion(xgb_proba, isolation_proba) == (xgb_proba + isolation_proba) \div 2

(***************************************************************************)
(* predict, lines 246-258: the threshold policy, evaluated high to low.    *)
(***************************************************************************)
RiskPolicyBad(fraud_score) ==
    IF fraud_score > FRAUD_THRESHOLD_HIGH
    THEN [risk_level |-> "HIGH", action |-> "BLOCK"]
    ELSE IF fraud_score > FRAUD_THRESHOLD_MEDIUM
    THEN [risk_level |-> "MEDIUM", action |-> "ALERT"]
    ELSE IF fraud_score > FRAUD_THRESHOLD_LOW
    THEN [risk_level |-> "LOW", action |-> "MONITOR"]
    ELSE [risk_level |-> "MINIMAL", action |-> "APPROVE"]

RiskPolicy(fraud_score) ==
    IF fraud_score >= FRAUD_THRESHOLD_HIGH
    THEN [risk_level |-> "HIGH", action |-> "BLOCK"]
    ELSE IF fraud_score >= FRAUD_THRESHOLD_MEDIUM
    THEN [risk_level |-> "MEDIUM", action |-> "ALERT"]
    ELSE IF fraud_score >= FRAUD_THRESHOLD_LOW
    THEN [risk_level |-> "LOW", action |-> "MONITOR"]
    ELSE [risk_level |-> "MINIMAL", action |-> "APPROVE"]

(***************************************************************************)
(* predict, lines 240-267: from the two learners' outputs to the result.   *)
(***************************************************************************)
ScoreBad(xgb_proba, isolation_score) ==
    LET isolation_proba == Sigmoid(isolation_score)
        fraud_score == Fusion(xgb_proba, isolation_proba)
        policy == RiskPolicy(fraud_score)
    IN  [fraud_score |-> fraud_score,
         xgb_score |-> xgb_proba,
         isolation_score |-> isolation_proba,
         risk_level |-> policy.risk_level,
         action |-> policy.action,
         is_fraud_predicted |-> (fraud_score >= BinaryCut)]

Score(xgb_proba, isolation_score) ==
    LET isolation_proba == Sigmoid(isolation_score)
        fraud_score == Fusion(xgb_proba, isolation_proba)
        policy == RiskPolicy(fraud_score)
    IN  [fraud_score |-> fraud_score,
         xgb_score |-> xgb_proba,
         isolation_score |-> isolation_proba,
         risk_level |-> policy.risk_level,
         action |-> policy.action,
         is_fraud_predicted |-> (fraud_score > BinaryCut)]

(***************************************************************************)
(* _evaluate_models, lines 157-161: the hybrid score of one held-out row   *)
(* whose raw anomaly score is isolation_pred, in a split whose raw scores  *)
(* range from lo to hi.  Line 157 rescales by the minimum and maximum of   *)
(* the split; line 161 fuses the classifier probability with one minus     *)
(* the rescaled score.                                                     *)
(***************************************************************************)
HybridProba(xgb_proba, isolation_pred, lo, hi) ==
    LET isolation_proba == (One * (isolation_pred - lo)) \div (hi - lo)
    IN  (xgb_proba + (One - isolation_proba)) \div 2

NoResult ==
    [fraud_score |-> 0, xgb_score |-> 0, isolation_score |-> 0,
     risk_level |-> "", action |-> "", is_fraud_predicted |-> FALSE]

(***************************************************************************)
(* Transactions and training data.  A frame is what preprocess_data is     *)
(* given: the columns it has, and for each categorical column the set of   *)
(* values found in it (one value for a single transaction, the vocabulary  *)
(* for a training set).  num stands for the numeric attributes of a        *)
(* transaction.                                                            *)
(***************************************************************************)
NCat == 2
NNum == 2
NDatasets == 2

CatValues == 1..NCat
CatFeatures == {CATEGORICAL_FEATURES[i] : i \in 1..Len(CATEGORICAL_FEATURES)}

\* preprocess_data, lines 46-54: columns read while deriving features
DerivationColumns ==
    {"timestamp", "day_of_week", "hour", "amount", "velocity_1h",
     "avg_amount_30d", "std_amount_30d", "geographic_risk", "device_risk"}

DerivedColumns ==
    {"is_weekend", "is_night", "amount_log", "velocity_risk",
     "amount_deviation", "total_risk_score"}

\* preprocess_data, lines 66-74
feature_columns ==
    <<"amount", "amount_log", "hour", "day_of_week", "month",
      "user_age", "account_age_days", "transaction_count_day",
      "amount_last_hour", "amount_last_day", "velocity_1h",
      "avg_amount_30d", "std_amount_30d", "geographic_risk",
      "device_risk", "time_since_last_transaction",
      "is_weekend", "is_night", "velocity_risk",
      "amount_deviation", "total_risk_score">>

\* the attributes of a transaction (api_server.TransactionRequest, plus the
\* timestamp the endpoints add)
TransactionColumns ==
    {"transaction_id", "user_id", "timestamp", "amount", "merchant_category",
     "hour", "day_of_week", "month", "user_age", "account_age_days",
     "transaction_count_day", "amount_last_hour", "amount_last_day",
     "velocity_1h", "avg_amount_30d", "std_amount_30d", "geographic_risk",
     "device_risk", "device_type", "payment_method",
     "time_since_last_transaction"}

\* attributes a transaction handed to predict directly may lack
OmittedChoices == {{}, {"amount"}, {"month"}, {"device_type"}}

Records ==
    {[cols |-> TransactionColumns \ om,
      cat |-> [f \in CatFeatures |-> IF f = "merchant_category" THEN m ELSE d],
      num |-> n] :
        om \in OmittedChoices, m \in CatValues, d \in CatValues, n \in 1..NNum}

\* transactions that pass the validation of TransactionRequest
ApiRecords == {r \in Records : r.cols = TransactionColumns}

\* what train finds in the label column of a training set
LabelKinds == {"ok", "missing", "no_positive", "single_positive", "degenerate_eval"}

Datasets ==
    [name : 1..NDatasets, vocab : {1..k : k \in 1..NCat}, label : LabelKinds]

RecordFrame(r) == [cols |-> r.cols, values |-> [f \in CatFeatures |-> {r.cat[f]}]]

DatasetFrame(D) ==
    [cols |-> TransactionColumns, values |-> [f \in CatFeatures |-> D.vocab]]

(***************************************************************************)
(* The fitted state of a FraudDetector.  A LabelEncoder is its classes_    *)
(* (the empty set of features: no encoder yet); a scaler or learner is     *)
(* unfitted (src = 0) or fitted on the training set src with the feature   *)
(* list feats.                                                             *)
(***************************************************************************)
Unfitted == [src |-> 0, feats |-> <<>>]
Fitted(D, feats) == [src |-> D.name, feats |-> feats]

MetricNames == <<"XGBoost", "Isolation Forest", "Hybrid Model">>

\* __init__, lines 23-36
NewDetector ==
    [xgb_model |-> Unfitted,
     isolation_forest |-> Unfitted,
     scaler |-> Unfitted,
     label_encoders |-> [f \in {} |-> {}],
     performance_metrics |-> [m \in {} |-> 0],
     feature_importance |-> 0]

\* LabelEncoder.transform: the rank of the value among the sorted classes
EncodeValue(classes, v) == Cardinality({c \in classes : c < v})

(***************************************************************************)
(* preprocess_data, lines 56-63: the encoding loop from feature i on.      *)
(* An encoder is created and fitted when the feature has none; otherwise   *)
(* the existing one transforms, which raises on a value it has not seen.   *)
(***************************************************************************)
RECURSIVE EncodeFrom(_, _, _)
EncodeFrom(i, encoders, frame) ==
    IF i > Len(CATEGORICAL_FEATURES) THEN [ok |-> TRUE, encoders |-> encoders]
    ELSE LET f == CATEGORICAL_FEATURES[i] IN
         IF f \notin frame.cols THEN EncodeFrom(i + 1, encoders, frame)
         ELSE IF f \notin DOMAIN encoders
         THEN EncodeFrom(i + 1,
                  [g \in (DOMAIN encoders) \cup {f} |->
                      IF g = f THEN frame.values[f] ELSE encoders[g]], frame)
         ELSE IF frame.values[f] \subseteq encoders[f]
         THEN EncodeFrom(i + 1, encoders, frame)
         ELSE [ok |-> FALSE, encoders |-> encoders]

\* preprocess_data, lines 76-84: the feature list of the returned matrix
AvailableFeatures(frame) ==
    LET present(c) == c \in frame.cols \cup DerivedColumns
        encoded(f) == f \in frame.cols
    IN  SelectSeq(feature_columns, present) \o
        [i \in 1..Len(SelectSeq(CATEGORICAL_FEATURES, encoded)) |->
            SelectSeq(CATEGORICAL_FEATURES, encoded)[i] \o "_encoded"]

(***************************************************************************)
(* preprocess_data, lines 38-89.  ok = FALSE: it raised; encoders is the   *)
(* value of self.label_encoders when it returns or raises.                 *)
(***************************************************************************)
preprocess_dataBad(detector, frame) ==
    LET e == EncodeFrom(1, detector.label_encoders, frame)
    IN  [ok |-> e.ok, encoders |-> e.encoders,
         feats |-> IF e.ok
                   THEN AvailableFeatures([frame EXCEPT !.cols = TransactionColumns])
                   ELSE <<>>]

preprocess_data(detector, frame) ==
    IF ~(DerivationColumns \subseteq frame.cols)
    THEN [ok |-> FALSE, encoders |-> detector.label_encoders, feats |-> <<>>]
    ELSE LET e == EncodeFrom(1, detector.label_encoders, frame)
         IN  [ok |-> e.ok, encoders |-> e.encoders,
              feats |-> IF e.ok THEN AvailableFeatures(frame) ELSE <<>>]

(***************************************************************************)
(* The fitted objects are opaque library objects.  What the model keeps of *)
(* them: transform and the two scoring calls raise on an unfitted object   *)
(* and on a matrix whose features are not those of the fit, and otherwise  *)
(* return a value that is a fixed function of the fitted object and of the *)
(* matrix (random_state is fixed in config.py).  The two tables below are  *)
(* such functions: predict_proba ranges over [0,1], decision_function over *)
(* the raw anomaly scores.                                                 *)
(***************************************************************************)
CodeSum(x) == x.codes[1] + 2 * x.codes[2] + 3 * x.codes[3]

\* predict, line 234: self.scaler.transform(X)
ScalerTransform(scaler, feats, r, encoders) ==
    IF scaler.src = 0 \/ scaler.feats # feats THEN [ok |-> FALSE]
    ELSE [ok |-> TRUE,
          x |-> [num |-> r.num, scaled_by |-> scaler.src, width |-> Len(feats),
                 codes |-> [i \in 1..Len(CATEGORICAL_FEATURES) |->
                              LET f == CATEGORICAL_FEATURES[i] IN
                              IF f \in r.cols THEN EncodeValue(encoders[f], r.cat[f])
                              ELSE 0]]]

\* predict, line 237: self.xgb_model.predict_proba(X_scaled)[:, 1]
XgbPredictProba(xgb_model, x) ==
    IF xgb_model.src = 0 \/ Len(xgb_model.feats) # x.width THEN [ok |-> FALSE]
    ELSE [ok |-> TRUE,
          value |-> 2 * ((61 * x.num + 23 * xgb_model.src + 7 * x.scaled_by
                          + 19 * CodeSum(x)) % (One \div 2 + 1))]

\* predict, line 238: self.isolation_forest.decision_function(X_scaled)
IsoDecisionFunction(isolation_forest, x) ==
    IF isolation_forest.src = 0 \/ Len(isolation_forest.feats) # x.width
    THEN [ok |-> FALSE]
    ELSE [ok |-> TRUE,
          value |-> ((7 * x.num + 3 * isolation_forest.src + 5 * x.scaled_by
                      + 11 * CodeSum(x)) % (2 * RawMax + 1)) - RawMax]

Raised(detector) == [outcome |-> "raise", result |-> NoResult, detector |-> detector]

(***************************************************************************)
(* FraudDetector.predict, lines 223-267, on one transaction: what it       *)
(* returns or that it raises, and the detector it leaves.                  *)
(***************************************************************************)
predict(detector, r) ==
    LET pre == preprocess_data(detector, RecordFrame(r))
        after == [detector EXCEPT !.label_encoders = pre.encoders]
    IN  IF ~pre.ok THEN Raised(after)
        ELSE LET s == ScalerTransform(after.scaler, pre.feats, r, pre.encoders) IN
             IF ~s.ok THEN Raised(after)
             ELSE LET p == XgbPredictProba(after.xgb_model, s.x) IN
                  IF ~p.ok THEN Raised(after)
                  ELSE LET a == IsoDecisionFunction(after.isolation_forest, s.x) IN
                       IF ~a.ok THEN Raised(after)
                       ELSE [outcome |-> "return",
                             result |-> Score(p.value, a.value),
                             detector |-> after]

(***************************************************************************)
(* FraudDetector._evaluate_models, lines 149-221: the metrics it records.  *)
(* On a held-out split whose anomaly scores are all equal, line 157        *)
(* divides 0 by 0 and roc_auc_score raises on the second model, after the  *)
(* metrics of the first one were stored.                                   *)
(***************************************************************************)
EvaluateModels(detector, D) ==
    LET upto == IF D.label = "degenerate_eval" THEN 1 ELSE Len(MetricNames)
        done == {MetricNames[i] : i \in 1..upto}
        old == detector.performance_metrics
    IN  [ok |-> D.label # "degenerate_eval",
         detector |-> [detector EXCEPT !.performance_metrics =
             [m \in (DOMAIN old) \cup done |->
                 IF m \in done THEN D.name ELSE old[m]]]]

TrainRaised(detector) == [outcome |-> "raise", detector |-> detector]

(***************************************************************************)
(* FraudDetector.train, lines 91-147.                                      *)
(***************************************************************************)
train(detector, D) ==
    LET pre == preprocess_data(detector, DatasetFrame(D))
        d1 == [detector EXCEPT !.label_encoders = pre.encoders]
        d2 == [d1 EXCEPT !.scaler = Fitted(D, pre.feats),
                         !.isolation_forest = Fitted(D, pre.feats)]
        d3 == [d2 EXCEPT !.xgb_model = Fitted(D, pre.feats),
                         !.feature_importance = D.name]
        ev == EvaluateModels(d3, D)
    IN  IF ~pre.ok THEN TrainRaised(d1)
        \* line 97: y = df['is_fraud']
        ELSE IF D.label = "missing" THEN TrainRaised(d1)
        \* line 100: a stratified split needs two rows of each class
        ELSE IF D.label = "single_positive" THEN TrainRaised(d1)
        \* line 125: SMOTE needs two classes
        ELSE IF D.label = "no_positive" THEN TrainRaised(d2)
        ELSE IF ~ev.ok THEN TrainRaised(ev.detector)
        ELSE [outcome |-> "return", detector |-> ev.detector]

(***************************************************************************)
(* The artifact file.  joblib.load raises on a missing or unreadable file; *)
(* a readable file holds a dict, with the keys it has.                     *)
(***************************************************************************)
ArtifactKeys ==
    <<"xgb_model", "isolation_forest", "scaler", "label_encoders",
      "performance_metrics", "feature_importance">>

NoFile == [kind |-> "missing", keys |-> {}, data |-> NewDetector]
CorruptFile == [kind |-> "corrupt", keys |-> {}, data |-> NewDetector]

BundleBad(detector) ==
    [kind |-> "bundle",
     keys |-> {ArtifactKeys[i] : i \in 1..Len(ArtifactKeys)},
     data |-> [detector EXCEPT !.performance_metrics = NewDetector.performance_metrics]]

\* save_model, lines 271-280
Bundle(detector) ==
    [kind |-> "bundle",
     keys |-> {ArtifactKeys[i] : i \in 1..Len(ArtifactKeys)},
     data |-> detector]

\* load_model, lines 288-293: the assignments, in order, from key i on
RECURSIVE AssignFromBad(_, _, _)
AssignFromBad(i, detector, file) ==
    IF i > Len(ArtifactKeys) THEN [ok |-> TRUE, detector |-> detector]
    ELSE LET k == ArtifactKeys[i] IN
         IF k \notin file.keys THEN AssignFromBad(i + 1, detector, file)
         ELSE AssignFromBad(i + 1, [detector EXCEPT ![k] = file.data[k]], file)

RECURSIVE AssignFrom(_, _, _)
AssignFrom(i, detector, file) ==
    IF i > Len(ArtifactKeys) THEN [ok |-> TRUE, detector |-> detector]
    ELSE LET k == ArtifactKeys[i] IN
         IF k \notin file.keys THEN [ok |-> FALSE, detector |-> detector]
         ELSE AssignFrom(i + 1, [detector EXCEPT ![k] = file.data[k]], file)

(***************************************************************************)
(* FraudDetector.load_model, lines 283-299: the value it returns and the   *)
(* detector it leaves.                                                     *)
(***************************************************************************)
load_model(detector, file) ==
    IF file.kind # "bundle" THEN [ok |-> FALSE, detector |-> detector]
    ELSE AssignFrom(1, detector, file)

\* the last call and what came of it; for an endpoint, body is the list of
\* transactions of the request, status and predictions are the response
Call(op, outcome) ==
    [op |-> op, outcome |-> outcome, result |-> NoResult,
     body |-> <<>>, status |-> 0, predictions |-> <<>>]

\* incomplete artifact files: dicts holding only the first n keys, written
\* from a detector trained on the first training set
TrainedOn(D) == train(NewDetector, D).detector

SomeDataset == [name |-> 1, vocab |-> CatValues, label |-> "ok"]

IncompleteFiles ==
    {[kind |-> "bundle", keys |-> {ArtifactKeys[i] : i \in 1..n},
      data |-> TrainedOn(SomeDataset)] : n \in {0, 3, 5}}

VARIABLES
    detector,        \* the fields of the FraudDetector in use
    model_file,      \* the file at MODEL_PATH
    completed,       \* a train or a successful load_model has completed on it
    last,            \* the last call and its outcome
    fraud_detector,  \* api_server: the global, "None" until startup
    startup_loaded,  \* api_server: what load_model returned at startup
    api_metrics,     \* api_server: total_predictions
    probe,
    saved,           \* the detector as it was at the last save_model that wrote
    writer,          \* a thread inside train or load_model, and where it is
    reader,          \* a thread inside predict, and what it has read so far
    features,        \* preprocess_data: the derived features of one record
    fit,             \* train: the rows of the splits it has made so far
    launcher,        \* run.py: the FraudGuardLauncher and its threads
    monitor          \* system_monitor.py: the SystemMonitor

vars == <<detector, model_file, completed, last, fraud_detector,
          startup_loaded, api_metrics, probe, saved, writer, reader,
          features, fit, launcher, monitor>>

detectorVars == <<detector, model_file, completed, last>>
swapVars == <<writer, reader>>
auxVars == <<features, fit, launcher, monitor>>
serviceVars == <<fraud_detector, startup_loaded, api_metrics>>

NoProbe ==
    [xgb_proba |-> 0, isolation_score |-> 0, scored |-> FALSE, result |-> NoResult]

(***************************************************************************)
(* The life of one FraudDetector: construction, train, predict, save_model *)
(* and load_model, in any order (fraud_model.py).                          *)
(***************************************************************************)
\* api_server, lines 98-104.  total_processing_time counts each request's
\* processing time as one unit; last_prediction_time is the logical time of
\* the last update, 0 for None
NewApiMetrics ==
    [total_predictions |-> 0, total_processing_time |-> 0, last_prediction_time |-> 0]

\* a quotient whose value is num / den, undefined when den = 0
NoRatio == [num |-> 0, den |-> 0]

\* no record has gone through the derivations
NoFeatures ==
    [amount |-> 1, avg_amount_30d |-> 0, std_amount_30d |-> 0, velocity_1h |-> 0,
     derived |-> FALSE, velocity_risk |-> NoRatio, amount_deviation |-> NoRatio]
\* a set of rows, by label and origin: original fraud and legitimate rows of
\* the dataset, and rows SMOTE made up
Rows(fraud, legit, synthetic_fraud, synthetic_legit) ==
    [fraud |-> fraud, legit |-> legit,
     synthetic_fraud |-> synthetic_fraud, synthetic_legit |-> synthetic_legit]

NoRows == Rows(0, 0, 0, 0)

\* train has not been entered
NoFit ==
    [pc |-> "none", df |-> NoRows, X_train |-> NoRows, X_test |-> NoRows,
     X_train_balanced |-> NoRows, eval_set |-> NoRows, evaluated |-> NoRows]
\* run.py, FraudGuardLauncher.__init__ (lines 19-21) and the process around
\* it.  processes is the dict, as its (name, pid) items in insertion order;
\* alive is the set of child processes that run; log is the steps
\* start_full_system has attempted, with what each returned; stop and mon
\* are the positions of stop_all and of the monitor thread.
NoLauncher ==
    [pc |-> "none", running |-> FALSE, processes |-> <<>>, alive |-> {},
     next_pid |-> 1, transactions_file |-> FALSE, model_path |-> FALSE,
     had_transactions |-> FALSE, had_model |-> FALSE,
     generated |-> FALSE, trained |-> FALSE, log |-> <<>>, returned |-> "none",
     stop |-> [pc |-> "idle", todo |-> <<>>],
     mon |-> [pc |-> "none", todo |-> <<>>],
     stopped |-> FALSE, started_after_stop |-> FALSE, exited |-> FALSE]
\* system_monitor.py, SystemMonitor.__init__, lines 13-23.  A measurement and
\* an alert are kept as their ordinal: collected and raised count the
\* measurements taken and the alerts raised so far.
NoMonitor ==
    [metrics_history |-> <<>>, alerts |-> <<>>, collected |-> 0, raised |-> 0,
     api_stats |-> [total_requests |-> 0, total_predictions |-> 0,
                    fraud_detected |-> 0, errors |-> 0]]

\* no save_model has written the file
NotSaved == [by_save |-> FALSE, artifact |-> NewDetector]

\* no thread is inside train or load_model; no thread is inside predict
NoWriter == [op |-> "none", pc |-> 0, D |-> SomeDataset]
NoX == [num |-> 0, scaled_by |-> 0, width |-> 0,
        codes |-> [i \in 1..Len(CATEGORICAL_FEATURES) |-> 0]]
NoReader == [pc |-> "none", r |-> CHOOSE r \in Records : TRUE,
             encoders |-> NewDetector.label_encoders, feats |-> <<>>,
             x |-> NoX, proba |-> 0, result |-> NoResult,
             used |-> [scaler |-> 0, xgb_model |-> 0, isolation_forest |-> 0]]

Init ==
    /\ detector = NewDetector
    /\ model_file \in {NoFile, CorruptFile} \cup IncompleteFiles
    /\ completed = FALSE
    /\ last = Call("__init__", "return")
    /\ fraud_detector = "None"
    /\ startup_loaded = "not_started"
    /\ api_metrics = NewApiMetrics
    /\ probe = NoProbe
    /\ saved = NotSaved
    /\ writer = NoWriter
    /\ reader = NoReader
    /\ features = NoFeatures
    /\ fit = NoFit
    /\ launcher = NoLauncher
    /\ monitor = NoMonitor

Construct ==
    /\ detector # NewDetector
    /\ detector' = NewDetector
    /\ completed' = FALSE
    /\ last' = Call("__init__", "return")
    /\ UNCHANGED <<model_file, serviceVars, probe, saved, swapVars, auxVars>>

Train(D) ==
    LET t == train(detector, D) IN
    /\ detector' = t.detector
    /\ completed' = (completed \/ t.outcome = "return")
    /\ last' = Call("train", t.outcome)
    /\ UNCHANGED <<model_file, serviceVars, probe, saved, swapVars, auxVars>>

Predict(r) ==
    LET p == predict(detector, r) IN
    /\ detector' = p.detector
    /\ last' = [Call("predict", p.outcome) EXCEPT !.result = p.result]
    /\ UNCHANGED <<model_file, completed, serviceVars, probe, saved, swapVars, auxVars>>

\* save_model, lines 269-281: joblib.dump writes the destination in place;
\* a write that fails leaves an unreadable file
SaveModel(written) ==
    /\ model_file' = IF written THEN Bundle(detector) ELSE CorruptFile
    /\ saved' = IF written THEN [by_save |-> TRUE, artifact |-> detector]
                            ELSE NotSaved
    /\ last' = Call("save_model", IF written THEN "return" ELSE "raise")
    /\ UNCHANGED <<detector, completed, serviceVars, probe, swapVars, auxVars>>

LoadModel ==
    LET l == load_model(detector, model_file) IN
    /\ detector' = l.detector
    /\ completed' = (completed \/ l.ok)
    /\ last' = Call("load_model", IF l.ok THEN "True" ELSE "False")
    /\ UNCHANGED <<model_file, serviceVars, probe, saved, swapVars, auxVars>>

Next ==
    \/ Construct
    \/ \E D \in Datasets : Train(D)
    \/ \E r \in Records : Predict(r)
    \/ \E written \in BOOLEAN : SaveModel(written)
    \/ LoadModel

Spec == Init /\ [][Next]_vars


(***************************************************************************)
(* The service (api_server.py): startup_event builds a FraudDetector and   *)
(* loads the artifact file; the endpoints score transactions that passed   *)
(* the validation of TransactionRequest.  The service never trains: the    *)
(* file is what a training run, or anything else, left at MODEL_PATH.      *)
(***************************************************************************)
MaxBatch == 2
MaxPredictions == 3
MaxUpdates == 4

Batches == UNION {[1..n -> ApiRecords] : n \in 0..MaxBatch}

ServiceFiles ==
    {NoFile, CorruptFile, Bundle(NewDetector)} \cup IncompleteFiles \cup
    {Bundle(train(NewDetector, D).detector) :
        D \in {E \in Datasets : train(NewDetector, E).outcome = "return"}}

InitService ==
    /\ detector = NewDetector
    /\ model_file \in ServiceFiles
    /\ completed = FALSE
    /\ last = Call("__init__", "return")
    /\ fraud_detector = "None"
    /\ startup_loaded = "not_started"
    /\ api_metrics = NewApiMetrics
    /\ probe = NoProbe
    /\ saved = NotSaved
    /\ writer = NoWriter
    /\ reader = NoReader
    /\ features = NoFeatures
    /\ fit = NoFit
    /\ launcher = NoLauncher
    /\ monitor = NoMonitor

\* startup_event, lines 108-125
startup_event ==
    LET l == load_model(NewDetector, model_file) IN
    /\ fraud_detector = "None"
    /\ fraud_detector' = "FraudDetector"
    /\ detector' = l.detector
    /\ completed' = l.ok
    /\ startup_loaded' = IF l.ok THEN "True" ELSE "False"
    /\ last' = Call("startup_event", "return")
    /\ UNCHANGED <<model_file, api_metrics, probe, saved, swapVars, auxVars>>

\* predict_fraud, lines 183-185, and batch_predict, lines 239-241: the
\* three updates of api_metrics after n transactions were scored
Metered(metrics, n) ==
    [total_predictions |-> metrics.total_predictions + n,
     total_processing_time |-> metrics.total_processing_time + 1,
     last_prediction_time |-> metrics.total_processing_time + 1]

HTTPException(op, body, status) ==
    [Call(op, "raise") EXCEPT !.body = body, !.status = status]

predict_fraudBad(r) ==
    IF fraud_detector = "None"
    THEN /\ last' = HTTPException("predict_fraud", <<r>>, 503)
         /\ UNCHANGED <<detector, model_file, completed, serviceVars, probe, saved, swapVars, auxVars>>
    ELSE LET p == predict(detector, r) IN
         /\ detector' = p.detector
         /\ api_metrics.total_predictions < MaxPredictions
         /\ api_metrics.total_processing_time < MaxUpdates
         /\ api_metrics' = Metered(api_metrics, 1)
         /\ last' = [Call("predict_fraud", "return") EXCEPT
                        !.body = <<r>>, !.status = 200,
                        !.result = IF p.outcome = "raise"
                                   THEN Score(0, 0 - RawMax) ELSE p.result]
         /\ UNCHANGED <<model_file, completed, fraud_detector, startup_loaded, probe, saved, swapVars, auxVars>>

\* predict_fraud, lines 163-208
predict_fraud(r) ==
    IF fraud_detector = "None"
    THEN /\ last' = HTTPException("predict_fraud", <<r>>, 503)
         /\ UNCHANGED <<detector, model_file, completed, serviceVars, probe, saved, swapVars, auxVars>>
    ELSE LET p == predict(detector, r) IN
         /\ detector' = p.detector
         /\ IF p.outcome = "raise"
            THEN /\ last' = HTTPException("predict_fraud", <<r>>, 500)
                 /\ UNCHANGED api_metrics
            ELSE /\ api_metrics.total_predictions < MaxPredictions
                 /\ api_metrics.total_processing_time < MaxUpdates
                 /\ api_metrics' = Metered(api_metrics, 1)
                 /\ last' = [Call("predict_fraud", "return") EXCEPT
                                !.body = <<r>>, !.status = 200, !.result = p.result]
         /\ UNCHANGED <<model_file, completed, fraud_detector, startup_loaded, probe, saved, swapVars, auxVars>>

\* batch_predict, lines 227-233: the dict kept of one result
BatchItem(result) ==
    [fraud_score |-> result.fraud_score,
     risk_level |-> result.risk_level,
     action |-> result.action,
     is_fraud_predicted |-> result.is_fraud_predicted]

\* batch_predict, lines 221-234: the loop, from transaction i on
RECURSIVE BatchLoop(_, _, _, _)
BatchLoop(i, det, rs, results) ==
    IF i > Len(rs) THEN [ok |-> TRUE, detector |-> det, results |-> results]
    ELSE LET p == predict(det, rs[i]) IN
         IF p.outcome = "raise"
         THEN [ok |-> FALSE, detector |-> p.detector, results |-> results]
         ELSE BatchLoop(i + 1, p.detector, rs, Append(results, BatchItem(p.result)))

\* batch_predict, lines 210-251
batch_predict(rs) ==
    IF fraud_detector = "None"
    THEN /\ last' = HTTPException("batch_predict", rs, 503)
         /\ UNCHANGED <<detector, model_file, completed, serviceVars, probe, saved, swapVars, auxVars>>
    ELSE LET b == BatchLoop(1, detector, rs, <<>>) IN
         /\ detector' = b.detector
         /\ IF ~b.ok
            THEN /\ last' = HTTPException("batch_predict", rs, 500)
                 /\ UNCHANGED api_metrics
            ELSE /\ api_metrics.total_predictions + Len(rs) <= MaxPredictions
                 /\ api_metrics.total_processing_time < MaxUpdates
                 /\ api_metrics' = Metered(api_metrics, Len(rs))
                 \* line 247: processing_time / len(transactions)
                 /\ last' = IF Len(rs) = 0
                            THEN HTTPException("batch_predict", rs, 500)
                            ELSE [Call("batch_predict", "return") EXCEPT
                                     !.body = rs, !.status = 200,
                                     !.predictions = b.results]
         /\ UNCHANGED <<model_file, completed, fraud_detector, startup_loaded, probe, saved, swapVars, auxVars>>

\* health_check, lines 151-161; the outcome is model_status.  Every
\* FraudDetector has the attribute xgb_model (fraud_model.py, line 24)
health_check ==
    /\ last' = [Call("health_check",
                     IF fraud_detector # "None" THEN "loaded" ELSE "not_loaded")
                   EXCEPT !.status = 200]
    /\ UNCHANGED <<detector, model_file, completed, serviceVars, probe, saved, swapVars, auxVars>>

\* get_metrics, lines 253-277; the outcome is model_loaded
get_metrics ==
    /\ last' = [Call("get_metrics",
                     IF fraud_detector # "None" THEN "True" ELSE "False")
                   EXCEPT !.status = 200]
    /\ UNCHANGED <<detector, model_file, completed, serviceVars, probe, saved, swapVars, auxVars>>

NextService ==
    \/ startup_event
    \/ \E r \in ApiRecords : predict_fraud(r)
    \/ \E rs \in Batches : batch_predict(rs)
    \/ health_check
    \/ get_metrics

SpecService == InitService /\ [][NextService]_vars

(***************************************************************************)
(* The scoring function on its own: every pair of learner outputs.         *)
(***************************************************************************)
InitScore ==
    /\ probe \in [xgb_proba : ProbGrid, isolation_score : RawGrid,
                  scored : {FALSE}, result : {NoResult}]
    /\ detector = NewDetector
    /\ model_file = NoFile
    /\ completed = FALSE
    /\ last = Call("__init__", "return")
    /\ fraud_detector = "None"
    /\ startup_loaded = "not_started"
    /\ api_metrics = NewApiMetrics
    /\ saved = NotSaved
    /\ writer = NoWriter
    /\ reader = NoReader
    /\ features = NoFeatures
    /\ fit = NoFit
    /\ launcher = NoLauncher
    /\ monitor = NoMonitor

ScoreProbe ==
    /\ ~probe.scored
    /\ probe' = [probe EXCEPT !.scored = TRUE,
                              !.result = Score(probe.xgb_proba, probe.isolation_score)]
    /\ UNCHANGED <<detectorVars, serviceVars, saved, swapVars, auxVars>>

NextProbe ==
    /\ probe.scored
    /\ \E p \in ProbGrid, t \in RawGrid :
          probe' = [xgb_proba |-> p, isolation_score |-> t,
                    scored |-> FALSE, result |-> NoResult]
    /\ UNCHANGED <<detectorVars, serviceVars, saved, swapVars, auxVars>>

NextScore == ScoreProbe \/ NextProbe

SpecScore == InitScore /\ [][NextScore]_vars

(***************************************************************************)
(* The specifications below each exercise one part of the repository; the  *)
(* detector and the service stand by.                                      *)
(***************************************************************************)
Standby ==
    /\ detector = NewDetector
    /\ model_file = NoFile
    /\ completed = FALSE
    /\ last = Call("__init__", "return")
    /\ fraud_detector = "None"
    /\ startup_loaded = "not_started"
    /\ api_metrics = NewApiMetrics
    /\ probe = NoProbe
    /\ saved = NotSaved
    /\ writer = NoWriter
    /\ reader = NoReader

standbyVars == <<detectorVars, serviceVars, probe, saved, swapVars>>

(***************************************************************************)
(* preprocess_data, lines 52-53: the two derived features that divide.     *)
(* Amounts are whole currency units; a transaction has amount > 0 and      *)
(* avg_amount_30d, std_amount_30d, velocity_1h >= 0 (api_server.py, lines  *)
(* 25, 36-38; data_generator.py draws them positive).                      *)
(***************************************************************************)
EPSILON == 1

MaxAmount == 3
MaxStd == 2
MaxVelocity == 2

velocity_risk(r) == [num |-> r.velocity_1h, den |-> r.avg_amount_30d + 1]

amount_deviationBad(r) ==
    [num |-> Abs(r.amount - r.avg_amount_30d), den |-> r.std_amount_30d]

amount_deviation(r) ==
    [num |-> Abs(r.amount - r.avg_amount_30d), den |-> r.std_amount_30d + EPSILON]

FeatureInputs ==
    [amount : 1..MaxAmount, avg_amount_30d : 0..MaxAmount,
     std_amount_30d : 0..MaxStd, velocity_1h : 0..MaxVelocity,
     derived : {FALSE}, velocity_risk : {NoRatio}, amount_deviation : {NoRatio}]

InitFeatures ==
    /\ features \in FeatureInputs
    /\ Standby
    /\ fit = NoFit
    /\ launcher = NoLauncher
    /\ monitor = NoMonitor

DeriveFeatures ==
    /\ ~features.derived
    /\ features' = [features EXCEPT !.derived = TRUE,
                                    !.velocity_risk = velocity_risk(features),
                                    !.amount_deviation = amount_deviation(features)]
    /\ UNCHANGED <<standbyVars, fit, launcher, monitor>>

NextRecord ==
    /\ features.derived
    /\ features' \in FeatureInputs
    /\ UNCHANGED <<standbyVars, fit, launcher, monitor>>

NextFeatures == DeriveFeatures \/ NextRecord

SpecFeatures == InitFeatures /\ [][NextFeatures]_vars

(***************************************************************************)
(* train, lines 99-143, followed through the rows it hands from one step   *)
(* to the next (SpecTrain).                                                *)
(***************************************************************************)
MaxFraud == 8
MaxLegit == 12

\* config.py: test_size of the split (line 101), as a fraction 1/5
TEST_SIZE_DEN == 5
\* SMOTE(): k_neighbors = 5, so the minority needs 6 rows
SMOTE_K_NEIGHBORS == 5

Ceil(a, b) == (a + b - 1) \div b

\* train_test_split(..., test_size=0.2, stratify=y), line 100: the class
\* counts of the training part.  Each class gets the floor of its share of
\* n_train; a row left over goes to the class with the larger remainder, to
\* either on a tie.  The outcomes are a set; empty: the call raises (a class
\* with a single row, or fewer rows than classes in a part).
train_test_split(df) ==
    LET n == df.fraud + df.legit
        n_test == Ceil(n, TEST_SIZE_DEN)
        n_train == n - n_test
        floor_f == (df.fraud * n_train) \div n
        floor_l == (df.legit * n_train) \div n
        rem_f == (df.fraud * n_train) % n
        rem_l == (df.legit * n_train) % n
        extra == n_train - floor_f - floor_l
        parts(train_f, train_l) ==
            [X_train |-> Rows(train_f, train_l, 0, 0),
             X_test |-> Rows(df.fraud - train_f, df.legit - train_l, 0, 0)]
        n_classes == Cardinality({c \in {"fraud", "legit"} : df[c] > 0})
    IN  IF df.fraud = 1 \/ df.legit = 1 \/ n_train < n_classes \/ n_test < n_classes
        THEN {}
        ELSE IF extra = 0 THEN {parts(floor_f, floor_l)}
        ELSE (IF rem_f >= rem_l THEN {parts(floor_f + 1, floor_l)} ELSE {})
             \cup
             (IF rem_l >= rem_f THEN {parts(floor_f, floor_l + 1)} ELSE {})

\* SMOTE(random_state=42).fit_resample, lines 124-125: made-up rows of the
\* minority class until both classes have as many rows.  ok = FALSE: raises
fit_resampleBad(X) ==
    [ok |-> TRUE, rows |-> X]

fit_resample(X) ==
    LET minority == IF X.fraud <= X.legit THEN X.fraud ELSE X.legit
    IN  IF minority <= SMOTE_K_NEIGHBORS /\ X.fraud # X.legit
        THEN [ok |-> FALSE, rows |-> X]
        ELSE IF X.fraud <= X.legit
        THEN [ok |-> TRUE, rows |-> [X EXCEPT !.synthetic_fraud = X.legit - X.fraud]]
        ELSE [ok |-> TRUE, rows |-> [X EXCEPT !.synthetic_legit = X.fraud - X.legit]]

TrainingFrames ==
    {Rows(f, l, 0, 0) : f \in 0..MaxFraud, l \in 1..MaxLegit}

InitTrain ==
    /\ fit \in {[NoFit EXCEPT !.pc = "start", !.df = df] : df \in TrainingFrames}
    /\ Standby
    /\ features = NoFeatures
    /\ launcher = NoLauncher
    /\ monitor = NoMonitor

trainFrame == <<standbyVars, features, launcher, monitor>>

\* lines 100-102
SplitStep ==
    /\ fit.pc = "start"
    /\ IF train_test_split(fit.df) = {}
       THEN fit' = [fit EXCEPT !.pc = "raised"]
       ELSE \E s \in train_test_split(fit.df) :
               fit' = [fit EXCEPT !.pc = "split",
                                  !.X_train = s.X_train, !.X_test = s.X_test]
    /\ UNCHANGED trainFrame

\* lines 105-125: scaling and the Isolation Forest keep the rows; SMOTE
\* resamples the scaled training part
ResampleStep ==
    /\ fit.pc = "split"
    /\ LET b == fit_resample(fit.X_train) IN
       fit' = IF b.ok
              THEN [fit EXCEPT !.pc = "resampled", !.X_train_balanced = b.rows]
              ELSE [fit EXCEPT !.pc = "raised"]
    /\ UNCHANGED trainFrame

\* lines 132-136: the classifier is fitted on the balanced part, with the
\* held-out part as eval_set
FitStep ==
    /\ fit.pc = "resampled"
    /\ fit' = [fit EXCEPT !.pc = "fitted", !.eval_set = fit.X_test]
    /\ UNCHANGED trainFrame

\* line 143: the metrics are computed on X_test_scaled, y_test
EvaluateStep ==
    /\ fit.pc = "fitted"
    /\ fit' = [fit EXCEPT !.pc = "evaluated", !.evaluated = fit.X_test]
    /\ UNCHANGED trainFrame

\* train is called on another frame
NextFrame ==
    /\ fit.pc \in {"evaluated", "raised"}
    /\ \E df \in TrainingFrames : fit' = [NoFit EXCEPT !.pc = "start", !.df = df]
    /\ UNCHANGED trainFrame

NextTrain == SplitStep \/ ResampleStep \/ FitStep \/ EvaluateStep \/ NextFrame

SpecTrain == InitTrain /\ [][NextTrain]_vars

(***************************************************************************)
(* run.py: the launcher (SpecLaunch).  main runs start_full_system, then   *)
(* starts the monitor thread and waits; SIGINT or SIGTERM runs stop_all in *)
(* the main thread while the monitor thread goes on.  The launcher holds   *)
(* no lock.                                                                *)
(***************************************************************************)
MaxStarts == 4

LaunchSteps ==
    <<"check_dependencies", "setup_data", "train_model",
      "start_api_server", "start_dashboard">>

\* what a Popen followed by the wait and poll() of start_api_server or
\* start_dashboard can come to: Popen raises, the child has exited by the
\* time of poll(), or it runs
StartOutcomes == {"oserror", "died", "alive"}

Names(processes) == {processes[i][1] : i \in 1..Len(processes)}

Lookup(processes, name) ==
    processes[CHOOSE i \in 1..Len(processes) : processes[i][1] = name][2]

\* self.processes[name] = process
Assign(processes, name, pid) ==
    IF name \in Names(processes)
    THEN [i \in 1..Len(processes) |->
             IF processes[i][1] = name THEN <<name, pid>> ELSE processes[i]]
    ELSE Append(processes, <<name, pid>>)

\* del self.processes[name]
Delete(processes, name) ==
    LET keep(item) == item[1] # name IN SelectSeq(processes, keep)

\* start_api_server, lines 85-108, and start_dashboard, lines 110-135: the
\* launcher after the call, and the value returned
StartService(l, name, outcome) ==
    IF outcome = "oserror" THEN [ok |-> FALSE, launcher |-> l]
    ELSE [ok |-> outcome = "alive",
          launcher |-> [l EXCEPT
              !.processes = Assign(l.processes, name, l.next_pid),
              !.alive = IF outcome = "alive" THEN @ \cup {l.next_pid} ELSE @,
              !.next_pid = @ + 1,
              !.started_after_stop = @ \/ l.stopped]]

Logged(l, step, ok) == [l EXCEPT !.log = Append(@, [step |-> step, ok |-> ok])]

\* start_full_system, lines 143-177: what follows a step that returned ok
Proceed(l, ok, next) ==
    IF ~ok THEN [l EXCEPT !.pc = "exit", !.returned = "False"]
    ELSE IF next = "return"
    THEN [l EXCEPT !.pc = "waiting", !.returned = "True", !.running = TRUE,
                   !.mon.pc = "loop"]
    ELSE [l EXCEPT !.pc = next]

InitLaunch ==
    /\ launcher \in
          {[NoLauncher EXCEPT !.pc = "check_dependencies",
                              !.transactions_file = t, !.had_transactions = t,
                              !.model_path = m, !.had_model = m] :
              t \in BOOLEAN, m \in BOOLEAN}
    /\ Standby
    /\ features = NoFeatures
    /\ fit = NoFit
    /\ monitor = NoMonitor

launchFrame == <<standbyVars, features, fit, monitor>>

\* check_dependencies, lines 23-55
CheckDependencies ==
    /\ launcher.pc = "check_dependencies"
    /\ \E ok \in BOOLEAN :
          launcher' = Proceed(Logged(launcher, "check_dependencies", ok), ok, "setup_data")
    /\ UNCHANGED launchFrame

\* setup_data, lines 57-69: data_generator.py runs only when the
\* transactions file is missing, and writes it when it succeeds
SetupDataBad ==
    /\ launcher.pc = "setup_data"
    /\ \E ok \in BOOLEAN :
          launcher' = Proceed(
              Logged([launcher EXCEPT !.generated = TRUE,
                                      !.transactions_file = @ \/ ok],
                     "setup_data", ok),
              ok, "train_model")
    /\ UNCHANGED launchFrame

SetupData ==
    /\ launcher.pc = "setup_data"
    /\ IF launcher.transactions_file
       THEN launcher' = Proceed(Logged(launcher, "setup_data", TRUE), TRUE, "train_model")
       ELSE \E ok \in BOOLEAN :
               launcher' = Proceed(
                   Logged([launcher EXCEPT !.generated = TRUE,
                                           !.transactions_file = ok],
                          "setup_data", ok),
                   ok, "train_model")
    /\ UNCHANGED launchFrame

\* train_model, lines 71-83: fraud_model.py runs only when the model file
\* is missing, and writes it when it succeeds
TrainModel ==
    /\ launcher.pc = "train_model"
    /\ IF launcher.model_path
       THEN launcher' = Proceed(Logged(launcher, "train_model", TRUE), TRUE,
                                "start_api_server")
       ELSE \E ok \in BOOLEAN :
               launcher' = Proceed(
                   Logged([launcher EXCEPT !.trained = TRUE, !.model_path = ok],
                          "train_model", ok),
                   ok, "start_api_server")
    /\ UNCHANGED launchFrame

\* start_full_system, lines 156-157
StartApiServer ==
    /\ launcher.pc = "start_api_server"
    /\ \E outcome \in StartOutcomes :
          LET st == StartService(launcher, "api", outcome) IN
          launcher' = Proceed(Logged(st.launcher, "start_api_server", st.ok),
                              st.ok, "start_dashboard")
    /\ UNCHANGED launchFrame

\* start_full_system, lines 160-163, and main, lines 322-326
StartDashboard ==
    /\ launcher.pc = "start_dashboard"
    /\ \E outcome \in StartOutcomes :
          LET st == StartService(launcher, "dashboard", outcome) IN
          launcher' = Proceed(Logged(st.launcher, "start_dashboard", st.ok),
                              st.ok, "return")
    /\ UNCHANGED launchFrame

\* main, line 322: start_full_system returned False, main returns and the
\* launcher process ends; its children are not waited for
MainReturns ==
    /\ launcher.pc = "exit"
    /\ ~launcher.exited
    /\ launcher' = [launcher EXCEPT !.exited = TRUE]
    /\ UNCHANGED launchFrame

\* a child process exits on its own
ChildExits ==
    /\ launcher.pc = "waiting"
    /\ ~launcher.exited
    /\ \E pid \in launcher.alive :
          launcher' = [launcher EXCEPT !.alive = @ \ {pid}]
    /\ UNCHANGED launchFrame

\* signal_handler, lines 262-266, entering stop_all, line 239: the list of
\* the keys of processes
StopAll ==
    /\ launcher.pc = "waiting"
    /\ launcher.stop.pc = "idle"
    /\ launcher' = [launcher EXCEPT
          !.stop = [pc |-> "next",
                    todo |-> [i \in 1..Len(launcher.processes) |->
                                 launcher.processes[i][1]]]]
    /\ UNCHANGED launchFrame

\* stop_process, lines 225-231: terminate and wait
StopTerminate ==
    /\ launcher.stop.pc = "next"
    /\ launcher.stop.todo # <<>>
    /\ LET name == Head(launcher.stop.todo) IN
       launcher' =
          IF name \notin Names(launcher.processes)
          THEN [launcher EXCEPT !.stop.todo = Tail(@)]
          ELSE [launcher EXCEPT
                   !.alive = @ \ {Lookup(launcher.processes, name)},
                   !.stop.pc = "delete"]
    /\ UNCHANGED launchFrame

\* stop_process, line 232: del self.processes[service_name]
StopDelete ==
    /\ launcher.stop.pc = "delete"
    /\ launcher' = [launcher EXCEPT
          !.processes = Delete(@, Head(launcher.stop.todo)),
          !.stop.pc = "next",
          !.stop.todo = Tail(@)]
    /\ UNCHANGED launchFrame

\* stop_all, lines 242-243
StopFinish ==
    /\ launcher.stop.pc = "next"
    /\ launcher.stop.todo = <<>>
    /\ launcher' = [launcher EXCEPT !.running = FALSE, !.stopped = TRUE,
                                    !.stop.pc = "done"]
    /\ UNCHANGED launchFrame

\* signal_handler, line 267: sys.exit(0) ends the launcher and its daemon
\* thread
SysExit ==
    /\ launcher.stop.pc = "done"
    /\ ~launcher.exited
    /\ launcher' = [launcher EXCEPT !.exited = TRUE, !.pc = "exit"]
    /\ UNCHANGED launchFrame

\* monitor_processes, line 247: while self.running
MonitorCheck ==
    /\ launcher.mon.pc = "loop"
    /\ ~launcher.exited
    /\ launcher' = [launcher EXCEPT
          !.mon.pc = IF launcher.running THEN "sleep" ELSE "ended"]
    /\ UNCHANGED launchFrame

\* monitor_processes, lines 248-250: after the sleep, the list of the items
MonitorSnapshot ==
    /\ launcher.mon.pc = "sleep"
    /\ ~launcher.exited
    /\ launcher' = [launcher EXCEPT !.mon.pc = "scan",
                                    !.mon.todo = launcher.processes]
    /\ UNCHANGED launchFrame

\* monitor_processes, lines 250-260: poll the next item, restart its service
\* when the process has exited
MonitorPoll ==
    /\ launcher.mon.pc = "scan"
    /\ ~launcher.exited
    /\ IF launcher.mon.todo = <<>>
       THEN launcher' = [launcher EXCEPT !.mon.pc = "loop"]
       ELSE LET item == Head(launcher.mon.todo)
                rest == [launcher EXCEPT !.mon.todo = Tail(@)]
            IN  IF item[2] \in launcher.alive
                THEN launcher' = rest
                ELSE /\ launcher.next_pid <= MaxStarts
                     /\ \E outcome \in StartOutcomes :
                           launcher' = StartService(rest, item[1], outcome).launcher
    /\ UNCHANGED launchFrame

NextLaunch ==
    \/ CheckDependencies
    \/ SetupData
    \/ TrainModel
    \/ StartApiServer
    \/ StartDashboard
    \/ MainReturns
    \/ ChildExits
    \/ StopAll
    \/ StopTerminate
    \/ StopDelete
    \/ StopFinish
    \/ SysExit
    \/ MonitorCheck
    \/ MonitorSnapshot
    \/ MonitorPoll

SpecLaunch == InitLaunch /\ [][NextLaunch]_vars

(***************************************************************************)
(* system_monitor.py: the SystemMonitor (SpecMonitor).                     *)
(***************************************************************************)
HISTORY_MAXLEN == 100
ALERTS_KEPT == 20

MaxCollected == 102
MaxRaised == 22
MaxRequests == 2

\* the last n elements of a sequence
LastOf(seq, n) ==
    IF Len(seq) <= n THEN seq ELSE SubSeq(seq, Len(seq) - n + 1, Len(seq))

\* collect_system_metrics, lines 25-53: deque(maxlen=100).append
Collected(m) ==
    [m EXCEPT !.collected = @ + 1,
              !.metrics_history = LastOf(Append(@, m.collected + 1), HISTORY_MAXLEN)]

\* check_alerts, lines 108-113: extend, then keep the last 20
KeepAlertsBad(alerts, new_alerts) ==
    LET all == alerts \o new_alerts
    IN  IF Len(all) > ALERTS_KEPT THEN SubSeq(all, 1, ALERTS_KEPT) ELSE all

KeepAlerts(alerts, new_alerts) ==
    LET all == alerts \o new_alerts
    IN  IF Len(all) > ALERTS_KEPT THEN LastOf(all, ALERTS_KEPT) ELSE all

\* what update_api_stats is handed as prediction_result
PredictionResults == {"None", "empty", "fraud", "not_fraud"}

InitMonitor ==
    /\ monitor = NoMonitor
    /\ Standby
    /\ features = NoFeatures
    /\ fit = NoFit
    /\ launcher = NoLauncher

monitorFrame == <<standbyVars, features, fit, launcher>>

collect_system_metrics ==
    /\ monitor.collected < MaxCollected
    /\ monitor' = Collected(monitor)
    /\ UNCHANGED monitorFrame

\* check_alerts, lines 74-115.  cpu: cpu_usage_percent > 85; memory:
\* memory_usage_percent > 90.  response_time_ms is drawn from 25 to 95 (line
\* 46) and never exceeds the 150 of line 98
check_alerts(cpu, memory) ==
    /\ monitor.collected < MaxCollected
    /\ LET n == (IF cpu THEN 1 ELSE 0) + (IF memory THEN 1 ELSE 0)
           new_alerts == [i \in 1..n |-> monitor.raised + i]
           m == Collected(monitor)
       IN  /\ monitor.raised + n <= MaxRaised
           /\ monitor' = [m EXCEPT !.raised = @ + n,
                                   !.alerts = KeepAlerts(@, new_alerts)]
    /\ UNCHANGED monitorFrame

\* update_api_stats, lines 55-72
update_api_stats(prediction_result, error) ==
    /\ monitor.api_stats.total_requests < MaxRequests
    /\ monitor' = [monitor EXCEPT
          !.api_stats.total_requests = @ + 1,
          !.api_stats.total_predictions =
              IF prediction_result \in {"fraud", "not_fraud"} THEN @ + 1 ELSE @,
          !.api_stats.fraud_detected =
              IF prediction_result = "fraud" THEN @ + 1 ELSE @,
          !.api_stats.errors = IF error THEN @ + 1 ELSE @]
    /\ UNCHANGED monitorFrame

NextMonitor ==
    \/ collect_system_metrics
    \/ \E cpu \in BOOLEAN, memory \in BOOLEAN : check_alerts(cpu, memory)
    \/ \E prediction_result \in PredictionResults, error \in BOOLEAN :
          update_api_stats(prediction_result, error)

SpecMonitor == InitMonitor /\ [][NextMonitor]_vars

(***************************************************************************)
(* Properties of the scoring function (SpecScore).                         *)
(***************************************************************************)

\* C1: every fused score gets exactly one (risk_level, action) pair, with
\* inclusive lower bounds: s >= 0.8 is (HIGH, BLOCK), 0.5 <= s < 0.8 is
\* (MEDIUM, ALERT), 0.2 <= s < 0.5 is (LOW, MONITOR), s < 0.2 is
\* (MINIMAL, APPROVE); the action is tied one to one to the risk level.
ThresholdPartition ==
    probe.scored =>
        LET s == probe.result.fraud_score
            pair == <<probe.result.risk_level, probe.result.action>>
        IN  /\ (5 * s >= 4 * One) <=> (pair = <<"HIGH", "BLOCK">>)
            /\ (2 * s >= One /\ 5 * s < 4 * One) <=> (pair = <<"MEDIUM", "ALERT">>)
            /\ (5 * s >= One /\ 2 * s < One) <=> (pair = <<"LOW", "MONITOR">>)
            /\ (5 * s < One) <=> (pair = <<"MINIMAL", "APPROVE">>)

\* a score exactly on the 0.8 boundary was classified
ThresholdPartitionWitness ==
    /\ probe.scored
    /\ 5 * probe.result.fraud_score = 4 * One
    /\ probe.result.risk_level = "HIGH"

\* C2: the returned fraud_score lies in [0,1], and so do the two component
\* scores (xgb_score and isolation_score) it was averaged from.
ScoresInUnitInterval ==
    probe.scored =>
        /\ probe.result.fraud_score \in 0..One
        /\ probe.result.xgb_score \in 0..One
        /\ probe.result.isolation_score \in 0..One

\* the strongest raw anomaly score was squashed and fused
ScoresInUnitIntervalWitness ==
    /\ probe.scored
    /\ Abs(probe.isolation_score) = RawMax
    /\ probe.result.isolation_score \in 1..(One - 1)

\* C3: the returned fraud_score is the unweighted average of the xgb_score
\* and the isolation_score returned in the same result.
FusedIsAverage ==
    probe.scored =>
        2 * probe.result.fraud_score =
            probe.result.xgb_score + probe.result.isolation_score

\* two components that disagree were averaged
FusedIsAverageWitness ==
    /\ probe.scored
    /\ probe.result.xgb_score > probe.result.isolation_score + BinaryCut
    /\ probe.result.fraud_score > probe.result.isolation_score

RiskRank(risk_level) ==
    CASE risk_level = "HIGH" -> 3
      [] risk_level = "MEDIUM" -> 2
      [] risk_level = "LOW" -> 1
      [] OTHER -> 0

\* C4: for a fixed classifier probability, a lower (more anomalous) raw
\* anomaly score never gives a lower fraud_score nor a lower risk level.
StrongerAnomalyNeverLowersScore ==
    probe.scored =>
        \A t \in RawGrid :
            t < probe.isolation_score =>
                LET stronger == Score(probe.xgb_proba, t) IN
                /\ stronger.fraud_score >= probe.result.fraud_score
                /\ RiskRank(stronger.risk_level) >= RiskRank(probe.result.risk_level)

(***************************************************************************)
(* Properties of the detector (Spec).                                      *)
(***************************************************************************)

\* a complete transaction with a categorical value its encoder has not seen
HasUnseenCategory(det, r) ==
    /\ r.cols = TransactionColumns
    /\ DOMAIN det.label_encoders = CatFeatures
    /\ \E f \in CatFeatures : r.cat[f] \notin det.label_encoders[f]

\* C6: on a trained or loaded detector, predict on a transaction with a
\* categorical value never seen during training does not raise: it returns
\* a result.
UnseenCategoryIsScored ==
    [][\A r \in Records :
          (completed /\ HasUnseenCategory(detector, r) /\ Predict(r))
              => last'.outcome = "return"]_vars

\* C7: on a detector on which neither train nor a successful load_model has
\* completed, every predict raises and none returns a result.
NoScoreBeforeFit ==
    (last.op = "predict" /\ ~completed) => last.outcome = "raise"

\* C9: predict, whether it returns or raises, leaves the encoders, scaler,
\* classifier, anomaly scorer, metrics and feature importances unchanged.
PredictIsReadOnly ==
    [][last'.op = "predict" => detector' = detector]_vars

\* every field of the detector is the one a fit on D produces
FittedFrom(det, D) ==
    LET feats == AvailableFeatures(DatasetFrame(D)) IN
    /\ det.xgb_model = Fitted(D, feats)
    /\ det.isolation_forest = Fitted(D, feats)
    /\ det.scaler = Fitted(D, feats)
    /\ det.label_encoders = [f \in CatFeatures |-> D.vocab]
    /\ det.performance_metrics =
          [m \in {MetricNames[i] : i \in 1..Len(MetricNames)} |-> D.name]
    /\ det.feature_importance = D.name

\* C10: after train(D) returns, whatever was called on the detector before,
\* its encoders, scaler, classifier, anomaly scorer, metrics and feature
\* importances are all fitted from D.
TrainReplacesWholeArtifact ==
    [][\A D \in Datasets :
          (Train(D) /\ last'.outcome = "return") => FittedFrom(detector', D)]_vars

(***************************************************************************)
(* Properties of the service (SpecService).                                *)
(***************************************************************************)

\* C5: a batch request, the empty one included, is answered with the list
\* of the results predict gives for each of its transactions, in order and
\* with the same fields.
BatchEqualsPredictEach ==
    [][\A rs \in Batches :
          (/\ fraud_detector # "None"
           /\ \A i \in 1..Len(rs) : predict(detector, rs[i]).outcome = "return"
           /\ batch_predict(rs))
              => /\ last'.status = 200
                 /\ Len(last'.predictions) = Len(rs)
                 /\ \A i \in 1..Len(rs) :
                       last'.predictions[i] = predict(detector, rs[i]).result]_vars

\* C8: when load_model returned False at startup, every /predict and
\* /batch-predict request is answered 503 (model unavailable).
UnavailableModelAnswers503 ==
    (startup_loaded = "False" /\ last.op \in {"predict_fraud", "batch_predict"})
        => last.status = 503

(***************************************************************************)
(* Replacement under load (SpecSwap).  One FraudDetector, already trained, *)
(* is shared by a thread inside train or load_model and a thread inside    *)
(* predict.  The class holds no lock, so the threads interleave between    *)
(* the statements that read or assign a field of the detector.             *)
(***************************************************************************)
SwapDatasets == {D \in Datasets : D.label = "ok"}

InitSwap ==
    /\ detector \in {TrainedOn(D) : D \in SwapDatasets}
    /\ model_file \in {Bundle(TrainedOn(D)) : D \in SwapDatasets}
    /\ completed = TRUE
    /\ last = Call("train", "return")
    /\ fraud_detector = "None"
    /\ startup_loaded = "not_started"
    /\ api_metrics = NewApiMetrics
    /\ probe = NoProbe
    /\ saved = NotSaved
    /\ writer = NoWriter
    /\ reader = NoReader
    /\ features = NoFeatures
    /\ fit = NoFit
    /\ launcher = NoLauncher
    /\ monitor = NoMonitor

swapFrame == <<model_file, completed, last, serviceVars, probe, saved, auxVars>>

\* load_model, line 286: joblib.load has returned model_data
BeginLoad ==
    /\ writer.op = "none"
    /\ writer' = [NoWriter EXCEPT !.op = "load_model", !.pc = 1]
    /\ UNCHANGED <<detector, reader, swapFrame>>

\* load_model, lines 288-293: the next assignment self.k = model_data[k]
LoadStep ==
    /\ writer.op = "load_model"
    /\ LET k == ArtifactKeys[writer.pc] IN
       IF k \notin model_file.keys
       THEN /\ writer' = NoWriter
            /\ UNCHANGED detector
       ELSE /\ detector' = [detector EXCEPT ![k] = model_file.data[k]]
            /\ writer' = IF writer.pc = Len(ArtifactKeys) THEN NoWriter
                         ELSE [writer EXCEPT !.pc = @ + 1]
    /\ UNCHANGED <<reader, swapFrame>>

BeginTrain(D) ==
    /\ writer.op = "none"
    /\ writer' = [op |-> "train", pc |-> 1, D |-> D]
    /\ UNCHANGED <<detector, reader, swapFrame>>

\* train, lines 96-143: the next statement that assigns a field
TrainStep ==
    /\ writer.op = "train"
    /\ LET D == writer.D
           feats == AvailableFeatures(DatasetFrame(D))
           pre == preprocess_data(detector, DatasetFrame(D))
       IN  \* line 96: preprocess_data
           \/ /\ writer.pc = 1
              /\ detector' = [detector EXCEPT !.label_encoders = pre.encoders]
              /\ writer' = IF pre.ok THEN [writer EXCEPT !.pc = 2] ELSE NoWriter
           \* lines 104-105: StandardScaler().fit_transform
           \/ /\ writer.pc = 2
              /\ detector' = [detector EXCEPT !.scaler = Fitted(D, feats)]
              /\ writer' = [writer EXCEPT !.pc = 3]
           \* lines 114-116: IsolationForest(...).fit
           \/ /\ writer.pc = 3
              /\ detector' = [detector EXCEPT !.isolation_forest = Fitted(D, feats)]
              /\ writer' = [writer EXCEPT !.pc = 4]
           \* lines 131-132: XGBClassifier(...).fit
           \/ /\ writer.pc = 4
              /\ detector' = [detector EXCEPT !.xgb_model = Fitted(D, feats)]
              /\ writer' = [writer EXCEPT !.pc = 5]
           \* line 139: feature_importance
           \/ /\ writer.pc = 5
              /\ detector' = [detector EXCEPT !.feature_importance = D.name]
              /\ writer' = [writer EXCEPT !.pc = 6]
           \* line 143: _evaluate_models
           \/ /\ writer.pc = 6
              /\ detector' = EvaluateModels(detector, D).detector
              /\ writer' = NoWriter
    /\ UNCHANGED <<reader, swapFrame>>

\* predict is entered with one transaction
BeginPredict(r) ==
    /\ reader.pc \in {"none", "done", "raised"}
    /\ reader' = [NoReader EXCEPT !.pc = "preprocess", !.r = r]
    /\ UNCHANGED <<detector, writer, swapFrame>>

\* predict, lines 231-238: the next statement that reads a field
PredictStep ==
    /\ LET r == reader.r
           pre == preprocess_data(detector, RecordFrame(r))
           s == ScalerTransform(detector.scaler, reader.feats, r, reader.encoders)
           p == XgbPredictProba(detector.xgb_model, reader.x)
           a == IsoDecisionFunction(detector.isolation_forest, reader.x)
       IN  \* line 231: preprocess_data
           \/ /\ reader.pc = "preprocess"
              /\ detector' = [detector EXCEPT !.label_encoders = pre.encoders]
              /\ reader' = [reader EXCEPT
                              !.pc = IF pre.ok THEN "scale" ELSE "raised",
                              !.encoders = pre.encoders,
                              !.feats = pre.feats]
           \* line 234: self.scaler.transform
           \/ /\ reader.pc = "scale"
              /\ reader' = IF ~s.ok THEN [reader EXCEPT !.pc = "raised"]
                           ELSE [reader EXCEPT !.pc = "classify", !.x = s.x,
                                    !.used.scaler = detector.scaler.src]
              /\ UNCHANGED detector
           \* line 237: self.xgb_model.predict_proba
           \/ /\ reader.pc = "classify"
              /\ reader' = IF ~p.ok THEN [reader EXCEPT !.pc = "raised"]
                           ELSE [reader EXCEPT !.pc = "anomaly", !.proba = p.value,
                                    !.used.xgb_model = detector.xgb_model.src]
              /\ UNCHANGED detector
           \* lines 238-267: self.isolation_forest.decision_function, fusion
           \/ /\ reader.pc = "anomaly"
              /\ reader' = IF ~a.ok THEN [reader EXCEPT !.pc = "raised"]
                           ELSE [reader EXCEPT !.pc = "done",
                                    !.result = Score(reader.proba, a.value),
                                    !.used.isolation_forest = detector.isolation_forest.src]
              /\ UNCHANGED detector
    /\ UNCHANGED <<writer, swapFrame>>

NextSwap ==
    \/ BeginLoad
    \/ LoadStep
    \/ \E D \in SwapDatasets : BeginTrain(D)
    \/ TrainStep
    \/ \E r \in ApiRecords : BeginPredict(r)
    \/ PredictStep

SpecSwap == InitSwap /\ [][NextSwap]_vars

(***************************************************************************)
(* Persistence and training failures (Spec).                               *)
(***************************************************************************)

\* C11: a load_model call that fails leaves all six fields of the detector
\* exactly as they were before the call.
FailedLoadKeepsArtifact ==
    [][(last'.op = "load_model" /\ last'.outcome = "False")
          => detector' = detector]_vars

\* C12: load_model never raises: it returns False on a file it cannot read
\* or that lacks a key, and True only when all six fields were replaced by
\* those of the file.
LoadReportsOutcome ==
    last.op = "load_model" =>
        /\ last.outcome \in {"True", "False"}
        /\ (model_file.kind # "bundle" => last.outcome = "False")
        /\ last.outcome = "True" =>
              \A i \in 1..Len(ArtifactKeys) :
                  /\ ArtifactKeys[i] \in model_file.keys
                  /\ detector[ArtifactKeys[i]] = model_file.data[ArtifactKeys[i]]

\* a fitted artifact was loaded and load_model returned True
LoadReportsOutcomeWitness ==
    /\ last.op = "load_model"
    /\ last.outcome = "True"
    /\ detector.scaler.src # 0
    /\ detector.xgb_model.src # 0

CompleteBundle(file) ==
    file.kind = "bundle" /\ file.keys = {ArtifactKeys[i] : i \in 1..Len(ArtifactKeys)}

\* C13: a save_model that is interrupted while the destination holds a good
\* artifact leaves there the complete previous artifact or the complete new
\* one.
SaveIsCrashAtomic ==
    [][(last'.op = "save_model" /\ CompleteBundle(model_file))
          => model_file' \in {model_file, Bundle(detector)}]_vars

\* C15: a train that raises on a training set without the label column, or
\* without a positive example, leaves the encoders, scaler, anomaly scorer
\* and classifier as they were before the call.
DegenerateTrainFailsFast ==
    [][\A D \in Datasets :
          (D.label \in {"missing", "no_positive"} /\ Train(D))
              => /\ last'.outcome = "raise"
                 /\ detector'.label_encoders = detector.label_encoders
                 /\ detector'.scaler = detector.scaler
                 /\ detector'.isolation_forest = detector.isolation_forest
                 /\ detector'.xgb_model = detector.xgb_model]_vars

\* what a caller of predict observes
Observed(p) == <<p.outcome, p.result>>

\* C17: on a trained or loaded detector, what predict gives for a record
\* does not depend on the predict calls made before it.
PredictionsIndependent ==
    [][(completed /\ last'.op = "predict")
          => \A r \in Records :
                 Observed(predict(detector', r)) = Observed(predict(detector, r))]_vars

(***************************************************************************)
(* The binary flag (SpecScore).                                            *)
(***************************************************************************)

\* C16: is_fraud_predicted is true if and only if risk_level is MEDIUM or
\* HIGH, the boundary scores included.
FlagIffMediumOrHigh ==
    probe.scored =>
        (probe.result.is_fraud_predicted
            <=> probe.result.risk_level \in {"MEDIUM", "HIGH"})

\* C16, amended: is_fraud_predicted is true if and only if risk_level is
\* MEDIUM or HIGH and the score is not exactly 0.5; LOW and MINIMAL never
\* carry a true flag, HIGH always does.
FlagIffAboveHalf ==
    probe.scored =>
        /\ probe.result.is_fraud_predicted
              <=> (/\ probe.result.risk_level \in {"MEDIUM", "HIGH"}
                   /\ 2 * probe.result.fraud_score # One)
        /\ probe.result.risk_level \in {"LOW", "MINIMAL"}
              => ~probe.result.is_fraud_predicted
        /\ probe.result.risk_level = "HIGH" => probe.result.is_fraud_predicted

\* a score of exactly 0.5 was classified: MEDIUM, and the flag is false
FlagIffAboveHalfWitness ==
    /\ probe.scored
    /\ 2 * probe.result.fraud_score = One
    /\ probe.result.risk_level = "MEDIUM"
    /\ ~probe.result.is_fraud_predicted

(***************************************************************************)
(* Failures at the endpoints (SpecService).                                *)
(***************************************************************************)

\* C18: in a batch, a record on which scoring fails fails alone: the
\* response still carries the result of every other record.
BadRecordFailsAlone ==
    [][(last'.op = "batch_predict" /\ fraud_detector # "None")
          => \A j \in 1..Len(last'.body) :
                 LET p == predict(detector, last'.body[j]) IN
                 p.outcome = "return"
                     => /\ last'.status = 200
                        /\ \E i \in 1..Len(last'.predictions) :
                              last'.predictions[i] = BatchItem(p.result)]_vars

\* C19: whenever scoring a record raises inside the model, the endpoint
\* reports the request as failed and returns no fraud_score, risk_level or
\* action for it.
FailureIsReported ==
    [][(/\ last'.op \in {"predict_fraud", "batch_predict"}
        /\ fraud_detector # "None"
        /\ ~BatchLoop(1, detector, last'.body, <<>>).ok)
          => /\ last'.outcome = "raise"
             /\ last'.status = 500
             /\ last'.result = NoResult
             /\ last'.predictions = <<>>]_vars

\* on a loaded, fitted model a /predict request failed in scoring
FailureIsReportedWitness ==
    /\ last.op = "predict_fraud"
    /\ last.status = 500
    /\ startup_loaded = "True"
    /\ detector.scaler.src # 0
    /\ detector.xgb_model.src # 0

(***************************************************************************)
(* Replacement under load (SpecSwap).                                      *)
(***************************************************************************)

\* C20: a predict that runs while train or load_model replaces the artifact
\* never computes its score from a mix of components of the old and the new
\* artifact: the scaler, classifier and anomaly scorer it used come from one
\* artifact.
ServedByOneArtifact ==
    reader.pc = "done"
        => /\ reader.used.xgb_model = reader.used.scaler
           /\ reader.used.isolation_forest = reader.used.scaler

(***************************************************************************)
(* Training-time and serving-time scores (SpecScore).                      *)
(***************************************************************************)

\* C21: for the same classifier probability and raw anomaly score, the
\* hybrid score train evaluates equals the fraud_score predict returns (up
\* to one step of the fixed-point grid), whatever the other rows of the
\* held-out split are.
HybridScoreIsServedScore ==
    probe.scored =>
        \A lo \in RawGrid, hi \in RawGrid :
            (lo < hi /\ lo <= probe.isolation_score /\ probe.isolation_score <= hi)
                => Abs(HybridProba(probe.xgb_proba, probe.isolation_score, lo, hi)
                       - probe.result.fraud_score) <= 2

(***************************************************************************)
(* The feature contract between train and predict (Spec).                  *)
(***************************************************************************)

\* the feature c can be built from the attributes the record r has
Producible(c, r) ==
    \/ c \in r.cols
    \/ c \in DerivedColumns /\ DerivationColumns \subseteq r.cols
    \/ \E f \in CatFeatures : c = f \o "_encoded" /\ f \in r.cols

\* C22: whenever predict scores a record, the ordered feature list built
\* for the record is the one the scaler, the classifier and the anomaly
\* scorer were fitted on, and every feature of that list can be built from
\* the record: a record with a missing attribute is never scored.
ServedFeaturesAreTrainedFeatures ==
    [][(last'.op = "predict" /\ last'.outcome = "return")
          => \A r \in Records :
              Predict(r)
              => LET feats == preprocess_data(detector, RecordFrame(r)).feats IN
                 /\ feats = detector.scaler.feats
                 /\ feats = detector.xgb_model.feats
                 /\ feats = detector.isolation_forest.feats
                 /\ \A i \in 1..Len(detector.scaler.feats) :
                        Producible(detector.scaler.feats[i], r)]_vars

\* a transaction was scored by a detector fitted on the full feature list
ServedFeaturesWitness ==
    /\ last.op = "predict"
    /\ last.outcome = "return"
    /\ detector.scaler.feats = AvailableFeatures(DatasetFrame(SomeDataset))
    /\ Len(detector.scaler.feats) = Len(feature_columns) + Len(CATEGORICAL_FEATURES)

(***************************************************************************)
(* What the service reports about itself (SpecService).                    *)
(***************************************************************************)

\* C25: /health reports model_status "loaded" and /metrics reports
\* model_loaded true only if load_model succeeded at startup.
ModelStatusIsAvailability ==
    /\ (last.op = "health_check" /\ last.outcome = "loaded")
          => startup_loaded = "True"
    /\ (last.op = "get_metrics" /\ last.outcome = "True")
          => startup_loaded = "True"

\* C26: a /predict or /batch-predict request that succeeds adds the number
\* of transactions it scored to total_predictions; one that ends in an error
\* leaves total_predictions, total_processing_time and last_prediction_time
\* as they were.
MetricsCountScoredTransactions ==
    [][last'.op \in {"predict_fraud", "batch_predict"}
          => IF last'.status = 200
             THEN api_metrics'.total_predictions
                      = api_metrics.total_predictions + Len(last'.body)
             ELSE api_metrics' = api_metrics]_vars

(***************************************************************************)
(* Derived features (SpecFeatures).                                        *)
(***************************************************************************)

\* C24: for every record, the denominators of velocity_risk and of
\* amount_deviation are not zero, also when std_amount_30d = 0 and
\* avg_amount_30d = 0, and amount_deviation is |amount - avg_amount_30d|
\* over std_amount_30d + epsilon.
DerivedFeaturesAreDefined ==
    features.derived =>
        /\ features.velocity_risk.den # 0
        /\ features.amount_deviation.den # 0
        /\ features.amount_deviation.num
               = Abs(features.amount - features.avg_amount_30d)
        /\ features.amount_deviation.den = features.std_amount_30d + EPSILON

\* a record with a zero 30-day average and a zero 30-day deviation was
\* derived
DerivedFeaturesWitness ==
    /\ features.derived
    /\ features.std_amount_30d = 0
    /\ features.avg_amount_30d = 0
    /\ features.amount_deviation.num > 0

(***************************************************************************)
(* Oversampling (SpecTrain).                                               *)
(***************************************************************************)

Size(X) == X.fraud + X.legit + X.synthetic_fraud + X.synthetic_legit

\* C23: after the correction the training part has as many fraud rows as
\* legitimate rows, the extra ones being synthetic; the held-out part holds
\* original rows only, none of them in the training part, in the dataset's
\* fraud proportion (to within one row); the classifier's eval_set and
\* the rows the metrics are computed on are the held-out part.
OversamplingOnTrainingSplitOnly ==
    /\ fit.pc \in {"resampled", "fitted", "evaluated"} =>
          /\ fit.X_train_balanced.fraud + fit.X_train_balanced.synthetic_fraud
                = fit.X_train_balanced.legit + fit.X_train_balanced.synthetic_legit
          /\ fit.X_train_balanced.fraud = fit.X_train.fraud
          /\ fit.X_train_balanced.legit = fit.X_train.legit
          /\ fit.X_test.synthetic_fraud = 0 /\ fit.X_test.synthetic_legit = 0
          /\ fit.X_test.fraud + fit.X_train.fraud = fit.df.fraud
          /\ fit.X_test.legit + fit.X_train.legit = fit.df.legit
          /\ Abs(fit.X_test.fraud * Size(fit.df) - fit.df.fraud * Size(fit.X_test))
                < Size(fit.df)
    /\ fit.pc \in {"fitted", "evaluated"} => fit.eval_set = fit.X_test
    /\ fit.pc = "evaluated" =>
          /\ fit.evaluated = fit.X_test
          /\ fit.evaluated.synthetic_fraud = 0 /\ fit.evaluated.synthetic_legit = 0

\* an imbalanced dataset went through train: synthetic fraud rows were added
\* to the training part and the metrics were computed
OversamplingWitness ==
    /\ fit.pc = "evaluated"
    /\ fit.X_train_balanced.synthetic_fraud > 0
    /\ fit.evaluated.fraud > 0
    /\ fit.df.fraud < fit.df.legit

(***************************************************************************)
(* The launcher (SpecLaunch).                                              *)
(***************************************************************************)

MostRecent(seq, total) ==
    \A i \in 1..Len(seq) : seq[i] = total - Len(seq) + i

Min(a, b) == IF a <= b THEN a ELSE b

\* C30: metrics_history holds the 100 most recent measurements at most,
\* alerts the 20 most recent alerts at most, and the counters satisfy
\* fraud_detected <= total_predictions <= total_requests and
\* errors <= total_requests.
MonitorStateIsBounded ==
    /\ Len(monitor.metrics_history) = Min(monitor.collected, HISTORY_MAXLEN)
    /\ MostRecent(monitor.metrics_history, monitor.collected)
    /\ Len(monitor.alerts) = Min(monitor.raised, ALERTS_KEPT)
    /\ MostRecent(monitor.alerts, monitor.raised)
    /\ monitor.api_stats.fraud_detected <= monitor.api_stats.total_predictions
    /\ monitor.api_stats.total_predictions <= monitor.api_stats.total_requests
    /\ monitor.api_stats.errors <= monitor.api_stats.total_requests

\* more than 100 measurements were taken and more than 20 alerts raised,
\* and a request that found a fraud and one that failed were counted
MonitorWitness ==
    /\ monitor.collected > HISTORY_MAXLEN
    /\ monitor.raised > ALERTS_KEPT
    /\ monitor.api_stats.fraud_detected > 0
    /\ monitor.api_stats.errors > 0

====
